---- MODULE Spec2Model ----
(***************************************************************************)
(* The review analyser (ReviewAnalyzerPipeline): the run of the four        *)
(* layers, layer 1's cleaning of the raw review table, the embedding        *)
(* generator, and layer 2's HDBSCAN cluster assignment, LLM theme labeling  *)
(* (ThemeLabeler) and theme cardinality enforcer (ThemeEnforcer); and as    *)
(* objects of their own the clusterer (HDBSCANClustering), the deduplicator *)
(* (Deduplicator), layer 3's QuoteExtractor and ActionGenerator, and layer  *)
(* 4's EmailDrafter.                                                        *)
(*                                                                         *)
(* Text is a sequence of tokens: a word, " " or "\n".  A table (pandas     *)
(* DataFrame) is a sequence of rows, a row a record of its columns.  A     *)
(* dict is a function on its key set.                                      *)
(***************************************************************************)
EXTENDS Integers, Sequences, FiniteSets, TLC

VARIABLES pc, max_themes, df, labels, probabilities, df_clustered, pending,
          called, llm_calls, cluster_themes, df_themed, final_themes, df_final

\* layer 2: clustering, labeling, enforcement
l2vars == <<pc, max_themes, df, labels, probabilities, df_clustered, pending,
            called, llm_calls, cluster_themes, df_themed, final_themes,
            df_final>>

\* a run of the whole pipeline (ReviewAnalyzerPipeline.run_full_pipeline)
VARIABLES run_env, run_pc, stage, started, finished, scraped, recovered,
          failed_stage, error_logged, reraised, reported

runvars == <<run_env, run_pc, stage, started, finished, scraped, recovered,
             failed_stage, error_logged, reraised, reported>>

\* layer 1 from the read of the raw file to the hand-over to the embedding
\* step (run_layer1 steps 2-4, run_layer2 step 1)
VARIABLES l1_pc, fetched_columns, columns, current_df, validation_errors,
          pii_input, dedup_input, embed_input

l1vars == <<l1_pc, fetched_columns, columns, current_df, validation_errors,
            pii_input, dedup_input, embed_input>>

\* a call of EmbeddingGenerator
VARIABLES emb_pc, texts, batch_size, embeddings

embvars == <<emb_pc, texts, batch_size, embeddings>>

\* an HDBSCANClustering object and its caller
VARIABLES clu_min_cluster_size, clu_fitted, clu_labels, clu_probabilities,
          clu_last, clu_call, clu_df, clu_calls

cluvars == <<clu_min_cluster_size, clu_fitted, clu_labels, clu_probabilities,
             clu_last, clu_call, clu_df, clu_calls>>

\* one call of QuoteExtractor.extract_quotes or
\* ActionGenerator.generate_actions
VARIABLES gen_pc, gen_in, gen_call

genvars == <<gen_pc, gen_in, gen_call>>

\* an EmailDrafter, the environment it reads, and the messages handed to
\* the SMTP server
VARIABLES mail_pc, mail_env, mail_recipient, mail_call, mail_sent

mailvars == <<mail_pc, mail_env, mail_recipient, mail_call, mail_sent>>

\* a Deduplicator object, the table of its last call and the table returned
VARIABLES dd_pc, dd_seen_hashes, dd_duplicate_count, dd_input, dd_output

ddvars == <<dd_pc, dd_seen_hashes, dd_duplicate_count, dd_input, dd_output>>

\* the components added to the first four
morevars == <<cluvars, genvars, mailvars, ddvars>>

\* everything but layer 2
xvars == <<runvars, l1vars, embvars, morevars>>

\* everything but the run, layer 1, the embedding generator, the clusterer
notrun == <<l2vars, l1vars, embvars, morevars>>
notl1 == <<l2vars, runvars, embvars, morevars>>
notemb == <<l2vars, runvars, l1vars, morevars>>
notclu == <<l2vars, runvars, l1vars, embvars, genvars, mailvars, ddvars>>
notgen == <<l2vars, runvars, l1vars, embvars, cluvars, mailvars, ddvars>>
notmail == <<l2vars, runvars, l1vars, embvars, cluvars, genvars, ddvars>>
notdd == <<l2vars, runvars, l1vars, embvars, cluvars, genvars, mailvars>>

vars == <<l2vars, xvars>>

\* the components a specification does not exercise stay as constructed
Layer2Idle ==
    /\ pc = "idle"
    /\ max_themes = 0
    /\ df = <<>>
    /\ labels = <<>>
    /\ probabilities = <<>>
    /\ df_clustered = <<>>
    /\ pending = {}
    /\ called = {}
    /\ llm_calls = <<>>
    /\ cluster_themes = <<>>
    /\ df_themed = <<>>
    /\ final_themes = <<>>
    /\ df_final = <<>>

RunIdle ==
    /\ run_env = <<>>
    /\ run_pc = "idle"
    /\ stage = 0
    /\ started = <<>>
    /\ finished = {}
    /\ scraped = "unset"
    /\ recovered = {}
    /\ failed_stage = "none"
    /\ error_logged = FALSE
    /\ reraised = FALSE
    /\ reported = FALSE

Layer1Idle ==
    /\ l1_pc = "idle"
    /\ fetched_columns = {}
    /\ columns = {}
    /\ current_df = <<>>
    /\ validation_errors = 0
    /\ pii_input = "unset"
    /\ dedup_input = "unset"
    /\ embed_input = "unset"

EmbeddingIdle ==
    /\ emb_pc = "idle"
    /\ texts = <<>>
    /\ batch_size = 0
    /\ embeddings = <<>>

ClustererIdle ==
    /\ clu_min_cluster_size = 0
    /\ clu_fitted = FALSE
    /\ clu_labels = <<>>
    /\ clu_probabilities = <<>>
    /\ clu_last = [n |-> 0, labels |-> <<>>, probabilities |-> <<>>]
    /\ clu_call = [op |-> "none"]
    /\ clu_df = <<>>
    /\ clu_calls = 0

GenerationIdle ==
    /\ gen_pc = "idle"
    /\ gen_in = <<>>
    /\ gen_call = [op |-> "none"]

EmailIdle ==
    /\ mail_pc = "idle"
    /\ mail_env = <<>>
    /\ mail_recipient = ""
    /\ mail_call = [op |-> "none"]
    /\ mail_sent = <<>>

DeduplicatorIdle ==
    /\ dd_pc = "idle"
    /\ dd_seen_hashes = {}
    /\ dd_duplicate_count = 0
    /\ dd_input = <<>>
    /\ dd_output = <<>>

MoreIdle == ClustererIdle /\ GenerationIdle /\ EmailIdle /\ DeduplicatorIdle

OthersIdle == RunIdle /\ Layer1Idle /\ EmbeddingIdle /\ MoreIdle

---------------------------------------------------------------------------
(* Bounds of the model *)

\* rows of the review table in a pipeline run
MaxReviews == 3
\* clusters HDBSCAN may find in a pipeline run
MaxClusters == 2
\* rows of a themed table handed to the enforcer directly
MaxRows == 6
\* non-noise clusters of a themed table handed to the enforcer directly
MaxThemed == 3
\* rows of a clustered table handed to the labeler directly
MaxMembers == 11
\* rows of the raw review table read by layer 1
MaxFetched == 2
\* texts in one call of generate_embeddings, and the largest batch_size tried
MaxTexts == 3
MaxBatch == 2
\* points in one call of HDBSCANClustering.fit_predict, and calls made on
\* one clusterer
MaxPoints == 4
MaxCalls == 3
\* reviews handed to extract_quotes, lines of one LLM response, and the
\* largest num_quotes / num_actions argument
MaxGenReviews == 4
\* rows of a table handed to Deduplicator.deduplicate_dataframe
MaxDedupRows == 4
MaxLines == 4
MaxNum == 3

\* values of the max_themes constructor argument (0 stands for None)
MaxThemesArgs == {0, 1, 2}

---------------------------------------------------------------------------
(* Program constants *)

MAX_THEMES == 5
NOISE == -1
Miscellaneous == <<"Miscellaneous">>
OtherIssues == <<"Other", " ", "Issues">>
Fallback == <<"Uncategorized", " ", ">", " ", "General">>
\* pandas' missing value, distinct from every text
NaN == <<"NaN">>

---------------------------------------------------------------------------
(* Helpers *)

Range(f) == {f[x] : x \in DOMAIN f}

Min(a, b) == IF a <= b THEN a ELSE b

SetMin(S) == CHOOSE x \in S : \A y \in S : x <= y

Whitespace == {" ", "\n"}

\* str.strip(): drop leading and trailing whitespace
RECURSIVE LStrip(_)
LStrip(s) ==
    IF s # <<>> /\ Head(s) \in Whitespace THEN LStrip(Tail(s)) ELSE s

RECURSIVE RStrip(_)
RStrip(s) ==
    IF s # <<>> /\ s[Len(s)] \in Whitespace
    THEN RStrip(SubSeq(s, 1, Len(s) - 1))
    ELSE s

Strip(s) == RStrip(LStrip(s))

\* s.split("\n")[0]
RECURSIVE FirstLine(_)
FirstLine(s) ==
    IF s = <<>> \/ Head(s) = "\n" THEN <<>>
    ELSE <<Head(s)>> \o FirstLine(Tail(s))

\* Series.map(dict): a key the dict lacks maps to NaN
MapTheme(themes, cluster_id) ==
    IF cluster_id \in DOMAIN themes THEN themes[cluster_id] ELSE NaN

---------------------------------------------------------------------------
(* The text-generation collaborator: it raises, or returns a completion *)

LLMResponses ==
    { [ok |-> FALSE, content |-> <<>>],
      [ok |-> TRUE, content |-> <<"App", " ", "Crashes">>],
      [ok |-> TRUE,
       content |-> <<" ", "Login", " ", "Issues", "\n", "Because", "\n">>],
      [ok |-> TRUE, content |-> <<"Other", " ", "Issues">>],
      [ok |-> TRUE, content |-> <<"Miscellaneous">>],
      [ok |-> TRUE, content |-> <<" ", "\n", " ">>] }

\* ThemeLabeler.label_cluster, from the collaborator's response on
label_cluster(response) ==
    IF response.ok
    THEN LET theme_label == Strip(response.content)
         IN  IF "\n" \in Range(theme_label)
             THEN FirstLine(theme_label)
             ELSE theme_label
    ELSE Fallback

\* the call without its except clause
LabelClusterNoExcept(response) == ~response.ok
\* whether the collaborator's exception leaves label_cluster: the except
\* clause catches every Exception of the call
label_cluster_raises(response) == FALSE

ThemeNames == {label_cluster(r) : r \in LLMResponses}

---------------------------------------------------------------------------
(* HDBSCANClustering *)

\* what hdbscan's fit_predict may return for n points: a label per point,
\* -1 for noise, clusters numbered 0, 1, ... without gaps
Labelings(n) ==
    {l \in [1..n -> NOISE..(MaxClusters - 1)] :
        \A i \in 1..n : l[i] > 0 => \E j \in 1..n : l[j] = l[i] - 1}

\* hdbscan's probabilities_ for a labeling, in tenths: 0 for a noise point,
\* above 0 for a cluster member, 1.0 for the densest member of each cluster
ProbabilityLevels == {0, 5, 10}

Probabilities(l) ==
    {p \in [DOMAIN l -> ProbabilityLevels] :
        /\ \A i \in DOMAIN l : (p[i] = 0) <=> (l[i] = NOISE)
        /\ \A i \in DOMAIN l :
              l[i] # NOISE => \E j \in DOMAIN l : l[j] = l[i] /\ p[j] = 10}

\* assign_to_dataframe: a copy of df with the cluster_label and
\* cluster_probability columns
assign_to_dataframe(table, lab, prob) ==
    [i \in 1..Len(table) |->
        [review_id |-> table[i].review_id,
         cluster_label |-> lab[i],
         cluster_probability |-> prob[i]]]

---------------------------------------------------------------------------
(* ThemeLabeler *)

\* df[df['cluster_label'] != -1]['cluster_label'].unique()
UniqueClustersSkipZero(table) ==
    {table[i].cluster_label : i \in 1..Len(table)} \ {NOISE, 0}

UniqueClustersAll(table) ==
    {table[i].cluster_label : i \in 1..Len(table)}

unique_clusters(table) ==
    {table[i].cluster_label : i \in 1..Len(table)} \ {NOISE}

\* n_samples of label_all_clusters and the slice sample_reviews[:10] of
\* label_cluster
N_SAMPLES == 10
PROMPT_REVIEWS == 10

\* rows of df[df['cluster_label'] == cluster_id]
cluster_rows(table, cluster_id) ==
    {i \in 1..Len(table) : table[i].cluster_label = cluster_id}

\* the first n of rows in table order
HeadUnsorted(table, rows, n) ==
    {{i \in rows : Cardinality({j \in rows : j < i}) < n}}
\* the first n of rows sorted by cluster_probability, largest first: every
\* set the head can be, rows of equal probability being in either order
head_by_probability(table, rows, n) ==
    {S \in SUBSET rows :
        /\ Cardinality(S) = Min(n, Cardinality(rows))
        /\ \A i \in S : \A j \in rows \ S :
              table[i].cluster_probability >= table[j].cluster_probability}

\* the reviews label_cluster puts in the prompt for a cluster: the sample of
\* label_all_clusters, cut to its first 10
prompt_rows(table, cluster_id) ==
    UNION {head_by_probability(table, S, PROMPT_REVIEWS) :
             S \in head_by_probability(table, cluster_rows(table, cluster_id),
                                       N_SAMPLES)}

\* the noise branch of label_all_clusters
NoiseThemesNone(table, themes) == themes

noise_themes(table, themes) ==
    IF \E i \in 1..Len(table) : table[i].cluster_label = NOISE
    THEN [c \in DOMAIN themes \cup {NOISE} |->
            IF c = NOISE THEN Miscellaneous ELSE themes[c]]
    ELSE themes

\* assign_themes_to_dataframe: a copy with theme_name = cluster_label.map(..)
assign_themes_to_dataframe(table, themes) ==
    [i \in 1..Len(table) |->
        [review_id |-> table[i].review_id,
         cluster_label |-> table[i].cluster_label,
         cluster_probability |-> table[i].cluster_probability,
         theme_name |-> MapTheme(themes, table[i].cluster_label)]]

---------------------------------------------------------------------------
(* ThemeEnforcer *)

\* self.max_themes = max_themes or config.MAX_THEMES
effective_max_themes(arg) == IF arg = 0 THEN MAX_THEMES ELSE arg

\* set(theme for theme in cluster_themes.values() if theme != "Miscellaneous")
unique_themes(themes) == Range(themes) \ {Miscellaneous}

\* n_themes <= self.max_themes
WithinLimitStrict(n_themes, limit) == n_themes < limit

WithinLimitLoose(n_themes, limit) == n_themes <= limit + 1

within_limit(n_themes, limit) == n_themes <= limit

\* df['theme_name'].value_counts().to_dict(): NaN is not counted
get_theme_sizes(table) ==
    [t \in {table[i].theme_name : i \in 1..Len(table)} \ {NaN} |->
        Cardinality({i \in 1..Len(table) : table[i].theme_name = t})]

\* the slice bound of sorted_themes[:self.max_themes-1]
KeepCountAll(limit) == limit

keep_count(limit) == limit - 1

\* set(theme for theme, _ in sorted(sizes, reverse by count)[:n]): every set
\* the slice can yield, equal counts being in either order
KeepThemesAscending(theme_sizes, n) ==
    {K \in SUBSET DOMAIN theme_sizes :
        /\ Cardinality(K) = Min(n, Cardinality(DOMAIN theme_sizes))
        /\ \A t \in K : \A u \in DOMAIN theme_sizes \ K :
              theme_sizes[t] <= theme_sizes[u]}

keep_themes(theme_sizes, n) ==
    {K \in SUBSET DOMAIN theme_sizes :
        /\ Cardinality(K) = Min(n, Cardinality(DOMAIN theme_sizes))
        /\ \A t \in K : \A u \in DOMAIN theme_sizes \ K :
              theme_sizes[t] >= theme_sizes[u]}

\* the loop body of _merge_themes
MergedNameNoSentinel(theme_name, keep) ==
    IF theme_name \in keep THEN theme_name ELSE OtherIssues

merged_name(theme_name, keep) ==
    IF theme_name \in keep \/ theme_name = Miscellaneous
    THEN theme_name
    ELSE OtherIssues

merge_themes(themes, keep) ==
    [c \in DOMAIN themes |-> merged_name(themes[c], keep)]

\* _update_dataframe_themes
update_dataframe_themes(table, merged) ==
    [i \in 1..Len(table) |->
        [table[i] EXCEPT !.theme_name = MapTheme(merged, table[i].cluster_label)]]

\* enforce_theme_limit: the (table, mapping) pairs it can return
enforce_theme_limit(table, themes, limit) ==
    IF within_limit(Cardinality(unique_themes(themes)), limit)
    THEN {<<table, themes>>}
    ELSE {<<update_dataframe_themes(table, merge_themes(themes, K)),
            merge_themes(themes, K)>> :
             K \in keep_themes(get_theme_sizes(table), keep_count(limit))}

\* the caller's table and mapping after enforce_theme_limit returned out:
\* the merged mapping is a new dict and the table is updated on df.copy()
EnforceInPlace(table, themes, out) == out
caller_inputs_after_enforce(table, themes, out) == <<table, themes>>

---------------------------------------------------------------------------
(* One run of layer 2 *)

Layer2Start ==
    /\ pc = "start"
    /\ max_themes \in {effective_max_themes(a) : a \in MaxThemesArgs}
    /\ \E n \in 1..MaxReviews : df = [i \in 1..n |-> [review_id |-> i]]
    /\ labels = <<>>
    /\ probabilities = <<>>
    /\ df_clustered = <<>>
    /\ pending = {}
    /\ called = {}
    /\ llm_calls = <<>>
    /\ cluster_themes = <<>>
    /\ df_themed = <<>>
    /\ final_themes = <<>>
    /\ df_final = <<>>

Init == Layer2Start /\ OthersIdle

\* clusterer.fit_predict(embeddings)
FitPredict ==
    /\ pc = "start"
    /\ labels' \in Labelings(Len(df))
    /\ probabilities' \in Probabilities(labels')
    /\ pc' = "fitted"
    /\ UNCHANGED <<max_themes, df, df_clustered, pending, called, llm_calls,
                   cluster_themes, df_themed, final_themes, df_final>>
    /\ UNCHANGED xvars

\* clusterer.assign_to_dataframe(df)
AssignToDataframe ==
    /\ pc = "fitted"
    /\ df_clustered' = assign_to_dataframe(df, labels, probabilities)
    /\ pc' = "clustered"
    /\ UNCHANGED <<max_themes, df, labels, probabilities, pending, called,
                   llm_calls, cluster_themes, df_themed, final_themes,
                   df_final>>
    /\ UNCHANGED xvars

\* label_all_clusters, up to the loop
LabelAllBegin ==
    /\ pc = "clustered"
    /\ pending' = unique_clusters(df_clustered)
    /\ cluster_themes' = <<>>
    /\ pc' = "labeling"
    /\ UNCHANGED <<max_themes, df, labels, probabilities, df_clustered,
                   called, llm_calls, df_themed, final_themes, df_final>>
    /\ UNCHANGED xvars

\* one iteration of the loop over sorted(unique_clusters): the sample, the
\* prompt, the collaborator's response and the label
LabelNextCluster ==
    /\ pc = "labeling"
    /\ pending # {}
    /\ LET cluster_id == SetMin(pending)
       IN  \E reviews \in prompt_rows(df_clustered, cluster_id) :
           \E response \in LLMResponses :
             /\ called' = called \cup {cluster_id}
             /\ llm_calls' =
                  [c \in DOMAIN llm_calls \cup {cluster_id} |->
                      IF c = cluster_id
                      THEN [reviews |-> reviews,
                            raised |-> ~response.ok,
                            content |-> response.content]
                      ELSE llm_calls[c]]
             /\ IF label_cluster_raises(response)
                THEN /\ pc' = "raised"
                     /\ UNCHANGED <<cluster_themes, pending>>
                ELSE /\ cluster_themes' =
                          [c \in DOMAIN cluster_themes \cup {cluster_id} |->
                              IF c = cluster_id THEN label_cluster(response)
                              ELSE cluster_themes[c]]
                     /\ pending' = pending \ {cluster_id}
                     /\ pc' = pc
    /\ UNCHANGED <<max_themes, df, labels, probabilities, df_clustered,
                   df_themed, final_themes, df_final>>
    /\ UNCHANGED xvars

\* the loop is over: the noise branch and the return
LabelAllReturn ==
    /\ pc = "labeling"
    /\ pending = {}
    /\ cluster_themes' = noise_themes(df_clustered, cluster_themes)
    /\ pc' = "labeled"
    /\ UNCHANGED <<max_themes, df, labels, probabilities, df_clustered,
                   pending, called, llm_calls, df_themed, final_themes,
                   df_final>>
    /\ UNCHANGED xvars

\* labeler.assign_themes_to_dataframe(df_clustered, cluster_themes)
AssignThemes ==
    /\ pc = "labeled"
    /\ df_themed' = assign_themes_to_dataframe(df_clustered, cluster_themes)
    /\ pc' = "themed"
    /\ UNCHANGED <<max_themes, df, labels, probabilities, df_clustered,
                   pending, called, llm_calls, cluster_themes, final_themes,
                   df_final>>
    /\ UNCHANGED xvars

\* enforcer.enforce_theme_limit(df_themed, cluster_themes)
Enforce ==
    /\ pc = "themed"
    /\ \E out \in enforce_theme_limit(df_themed, cluster_themes, max_themes) :
          /\ df_final' = out[1]
          /\ final_themes' = out[2]
          /\ df_themed' =
                caller_inputs_after_enforce(df_themed, cluster_themes, out)[1]
          /\ cluster_themes' =
                caller_inputs_after_enforce(df_themed, cluster_themes, out)[2]
    /\ pc' = "enforced"
    /\ UNCHANGED <<max_themes, df, labels, probabilities, df_clustered,
                   pending, called, llm_calls>>
    /\ UNCHANGED xvars

\* the enforcer run again, on its own output
EnforceAgain ==
    /\ pc = "enforced"
    /\ \E out \in enforce_theme_limit(df_final, final_themes, max_themes) :
          /\ df_final' = out[1]
          /\ final_themes' = out[2]
    /\ pc' = "enforced2"
    /\ UNCHANGED <<max_themes, df, labels, probabilities, df_clustered,
                   pending, called, llm_calls, cluster_themes, df_themed>>
    /\ UNCHANGED xvars

Next ==
    \/ FitPredict
    \/ AssignToDataframe
    \/ LabelAllBegin
    \/ LabelNextCluster
    \/ LabelAllReturn
    \/ AssignThemes
    \/ Enforce
    \/ EnforceAgain

Spec == Init /\ [][Next]_vars

---------------------------------------------------------------------------
(* The enforcer on its own: enforce_theme_limit as a public function, given *)
(* any themed table the labeler can produce and its mapping                 *)

\* rows per cluster id NOISE..k-1: every cluster has a row, noise may have none
ClusterSizes(k) ==
    {sz \in [NOISE..(k - 1) -> 0..MaxRows] : \A c \in 0..(k - 1) : sz[c] >= 1}

RECURSIVE LabelsOf(_, _, _)
LabelsOf(sz, c, k) ==
    IF c >= k THEN <<>>
    ELSE [j \in 1..sz[c] |-> c] \o LabelsOf(sz, c + 1, k)

\* the enforcer reads no probability: every member is given 1.0
Layer2Themed ==
    /\ pc = "themed"
    /\ max_themes \in {effective_max_themes(a) : a \in MaxThemesArgs}
    /\ \E k \in 0..MaxThemed :
         \E sz \in ClusterSizes(k) :
           /\ labels = LabelsOf(sz, NOISE, k)
           /\ Len(labels) \in 1..MaxRows
           /\ called = 0..(k - 1)
           /\ \E names \in [0..(k - 1) -> ThemeNames] :
                 /\ cluster_themes =
                      [c \in {c \in NOISE..(k - 1) : sz[c] > 0} |->
                          IF c = NOISE THEN Miscellaneous ELSE names[c]]
                 /\ llm_calls =
                      [c \in 0..(k - 1) |->
                          [reviews |-> {i \in 1..Len(labels) : labels[i] = c},
                           raised |-> names[c] = Fallback,
                           content |->
                              IF names[c] = Fallback THEN <<>> ELSE names[c]]]
    /\ probabilities =
          [i \in 1..Len(labels) |-> IF labels[i] = NOISE THEN 0 ELSE 10]
    /\ df = [i \in 1..Len(labels) |-> [review_id |-> i]]
    /\ df_clustered = assign_to_dataframe(df, labels, probabilities)
    /\ df_themed = assign_themes_to_dataframe(df_clustered, cluster_themes)
    /\ pending = {}
    /\ final_themes = <<>>
    /\ df_final = <<>>

InitEnforcer == Layer2Themed /\ OthersIdle

NextEnforcer ==
    \/ Enforce
    \/ EnforceAgain

EnforcerSpec == InitEnforcer /\ [][NextEnforcer]_vars

---------------------------------------------------------------------------
(* The labeler on its own: label_all_clusters as a public function, given a  *)
(* clustered table of one or two clusters, large enough for the sample of   *)
(* 10 to leave members out                                                  *)

LabelerClusters == {1, 2}

\* rows per cluster id, at most one noise row
LabelerSizes(k) ==
    {sz \in [NOISE..(k - 1) -> 0..MaxMembers] :
        /\ sz[NOISE] <= 1
        /\ \A c \in 0..(k - 1) : sz[c] >= 1}

\* the probabilities of the rows of LabelsOf: in cluster c the last hi[c]
\* rows have 1.0, the rows before them 0.5
RECURSIVE ProbabilitiesOf(_, _, _, _)
ProbabilitiesOf(sz, hi, c, k) ==
    IF c >= k THEN <<>>
    ELSE [j \in 1..sz[c] |->
            IF c = NOISE THEN 0
            ELSE IF j <= sz[c] - hi[c] THEN 5 ELSE 10]
         \o ProbabilitiesOf(sz, hi, c + 1, k)

Layer2Clustered ==
    /\ pc = "clustered"
    /\ max_themes = MAX_THEMES
    /\ \E k \in LabelerClusters :
         \E sz \in LabelerSizes(k) :
           /\ labels = LabelsOf(sz, NOISE, k)
           /\ Len(labels) \in 1..MaxMembers
           /\ \E hi \in [0..(k - 1) -> 1..MaxMembers] :
                 /\ \A c \in 0..(k - 1) : hi[c] <= sz[c]
                 /\ probabilities = ProbabilitiesOf(sz, hi, NOISE, k)
    /\ df = [i \in 1..Len(labels) |-> [review_id |-> i]]
    /\ df_clustered = assign_to_dataframe(df, labels, probabilities)
    /\ pending = {}
    /\ called = {}
    /\ llm_calls = <<>>
    /\ cluster_themes = <<>>
    /\ df_themed = <<>>
    /\ final_themes = <<>>
    /\ df_final = <<>>

InitLabeler == Layer2Clustered /\ OthersIdle

NextLabeler ==
    \/ LabelAllBegin
    \/ LabelNextCluster
    \/ LabelAllReturn

LabelerSpec == InitLabeler /\ [][NextLabeler]_vars

---------------------------------------------------------------------------
(* A run of the whole pipeline: run_full_pipeline calls the four layers in   *)
(* statement order inside one try block.  A stage is one numbered step of   *)
(* a layer; its output is the value and the file the step leaves behind.    *)

RunStages ==
    <<"scrape", "validate", "redact_pii", "deduplicate",
      "embedding", "clustering", "labeling", "enforcement",
      "quotes", "actions", "pulse",
      "email">>

AllStages == Range(RunStages)

\* stages whose collaborator calls sit in a try/except with a fallback value
LocallyRecovered == {"labeling", "quotes", "actions"}

\* a step left out
NextStageSkip(i) == i + 2
\* statement order: the step after step i
next_stage(i) == i + 1

\* os.getenv without a default returns None for an unset variable
None == "<None>"
Truthy(v) == v \notin {None, ""}

\* the module attributes of config.py that layer 4 reads: the file defines
\* these mail settings and no EMAIL_RECIPIENT
ShippedConfig(address, password) ==
    [EMAIL_ADDRESS |-> address, EMAIL_PASSWORD |-> password,
     SMTP_SERVER |-> "smtp.gmail.com", SMTP_PORT |-> "587"]

\* a config.py to which EMAIL_RECIPIENT was added, as the docstring of
\* EmailDrafter.__init__ foresees
WithRecipient(cfg, v) ==
    [n \in DOMAIN cfg \cup {"EMAIL_RECIPIENT"} |->
        IF n = "EMAIL_RECIPIENT" THEN v ELSE cfg[n]]

HardCodedRecipient == "team@indmoney.com"

\* recipient or config.EMAIL_RECIPIENT or config.EMAIL_ADDRESS or
\* "team@indmoney.com": reading an attribute the module does not define
\* raises AttributeError
resolve_recipient(arg, cfg) ==
    IF Truthy(arg) THEN [raised |-> FALSE, recipient |-> arg]
    ELSE IF "EMAIL_RECIPIENT" \notin DOMAIN cfg
         THEN [raised |-> TRUE, recipient |-> ""]
    ELSE IF Truthy(cfg.EMAIL_RECIPIENT)
         THEN [raised |-> FALSE, recipient |-> cfg.EMAIL_RECIPIENT]
    ELSE IF Truthy(cfg.EMAIL_ADDRESS)
         THEN [raised |-> FALSE, recipient |-> cfg.EMAIL_ADDRESS]
    ELSE [raised |-> FALSE, recipient |-> HardCodedRecipient]

\* the configurations of a run
RunConfigs ==
    {ShippedConfig(None, None),
     WithRecipient(ShippedConfig(None, None), "pm@example.com")}

\* the exceptions the code of a step raises by itself: the read of a raw
\* file that was never written, and EmailDrafter() in run_layer4
stage_raises(name, rows, cfg) ==
    \/ name = "validate" /\ rows = "none"
    \/ name = "email" /\ resolve_recipient(None, cfg).raised

\* an except clause that only logs
ExceptSwallows == FALSE
\* the except clause ends in a bare raise
except_reraises == TRUE

\* a run is healthy when scraping returns reviews, the API key is set and
\* every collaborator call succeeds; otherwise any step may fail
RunStart ==
    /\ run_env \in [healthy : BOOLEAN, config : RunConfigs]
    /\ run_pc = "ready"
    /\ stage = 0
    /\ started = <<>>
    /\ finished = {}
    /\ scraped = "unset"
    /\ recovered = {}
    /\ failed_stage = "none"
    /\ error_logged = FALSE
    /\ reraised = FALSE
    /\ reported = FALSE

\* the next statement of the try block begins a step
StartStage ==
    /\ run_pc = "ready"
    /\ next_stage(stage) <= Len(RunStages)
    /\ stage' = next_stage(stage)
    /\ started' = Append(started, RunStages[stage'])
    /\ run_pc' = "running"
    /\ UNCHANGED <<finished, scraped, recovered, failed_stage, error_logged,
                   reraised, reported>>
    /\ UNCHANGED run_env
    /\ UNCHANGED notrun

\* the step returns; scraping may end with no reviews, then save_to_csv
\* writes no file and the read of the raw file in the validation step raises
FinishStage ==
    /\ run_pc = "running"
    /\ ~stage_raises(RunStages[stage], scraped, run_env.config)
    /\ finished' = finished \cup {RunStages[stage]}
    /\ IF RunStages[stage] = "scrape"
       THEN scraped' \in IF run_env.healthy THEN {"some"}
                        ELSE {"none", "some"}
       ELSE scraped' = scraped
    /\ run_pc' = "ready"
    /\ UNCHANGED <<stage, started, recovered, failed_stage, error_logged,
                   reraised, reported>>
    /\ UNCHANGED run_env
    /\ UNCHANGED notrun

\* a collaborator call fails inside the step and the step's own except
\* clause substitutes a fallback: the step goes on
RecoverInStage ==
    /\ run_pc = "running"
    /\ ~run_env.healthy
    /\ RunStages[stage] \in LocallyRecovered
    /\ RunStages[stage] \notin recovered
    /\ recovered' = recovered \cup {RunStages[stage]}
    /\ UNCHANGED <<run_pc, stage, started, finished, scraped, failed_stage,
                   error_logged, reraised, reported>>
    /\ UNCHANGED run_env
    /\ UNCHANGED notrun

\* an exception leaves the step: control passes to the except clause
RaiseInStage ==
    /\ run_pc = "running"
    /\ \/ ~run_env.healthy
       \/ stage_raises(RunStages[stage], scraped, run_env.config)
    /\ failed_stage' = RunStages[stage]
    /\ run_pc' = "except"
    /\ UNCHANGED <<stage, started, finished, scraped, recovered,
                   error_logged, reraised, reported>>
    /\ UNCHANGED run_env
    /\ UNCHANGED notrun

\* logger.error("Pipeline failed: ...", exc_info=True)
LogError ==
    /\ run_pc = "except"
    /\ error_logged' = TRUE
    /\ run_pc' = "logged"
    /\ UNCHANGED <<stage, started, finished, scraped, recovered,
                   failed_stage, reraised, reported>>
    /\ UNCHANGED run_env
    /\ UNCHANGED notrun

\* raise
Reraise ==
    /\ run_pc = "logged"
    /\ reraised' = except_reraises
    /\ run_pc' = IF except_reraises THEN "failed" ELSE "returned"
    /\ UNCHANGED <<stage, started, finished, scraped, recovered,
                   failed_stage, error_logged, reported>>
    /\ UNCHANGED run_env
    /\ UNCHANGED notrun

\* the summary after run_layer4: "PIPELINE COMPLETE!"
ReportComplete ==
    /\ run_pc = "ready"
    /\ next_stage(stage) > Len(RunStages)
    /\ reported' = TRUE
    /\ run_pc' = "complete"
    /\ UNCHANGED <<stage, started, finished, scraped, recovered,
                   failed_stage, error_logged, reraised>>
    /\ UNCHANGED run_env
    /\ UNCHANGED notrun

InitRun == RunStart /\ Layer2Idle /\ Layer1Idle /\ EmbeddingIdle /\ MoreIdle

NextRun ==
    \/ StartStage
    \/ FinishStage
    \/ RecoverInStage
    \/ RaiseInStage
    \/ LogError
    \/ Reraise
    \/ ReportComplete

RunSpec == InitRun /\ [][NextRun]_vars

\* the run is one thread of control: it keeps taking its next step
RunFairSpec == InitRun /\ [][NextRun]_vars /\ WF_vars(NextRun)

---------------------------------------------------------------------------
(* Layer 1 after the scrape: the raw file is read into a table, validated,   *)
(* filtered by date, anonymized, deduplicated, written out, and read again  *)
(* by the embedding step of layer 2.  Here a token of a text is one         *)
(* character; "a@b.c" stands for an e-mail address Presidio detects.  The   *)
(* raw table is whatever the raw file holds: PlaywrightScraper writes the   *)
(* five columns below, a file from another collector may lack some.         *)

REQUIRED_FIELDS == {"review_id", "content", "score", "date"}
OPTIONAL_FIELDS == {"thumbs_up_count"}
MIN_CONTENT_LENGTH == 10
\* a missing date cell
NaT == "NaT"

GoodText == <<"G", "r", "e", "a", "t", " ", "a", "p", "p", "!">>
SameTextOtherCase == <<" ", "g", "r", "e", "a", "t", " ", "a", "p", "p", "!">>
PiiText == <<"c", "a", "l", "l", " ", "m", "e", " ", "a", "t", " ", "a@b.c">>
BlankText == <<" ", " ", " ">>
ShortText == <<"o", "k">>

Review(id, content, score, date) ==
    [review_id |-> id, content |-> content, score |-> score, date |-> date,
     thumbs_up_count |-> 0]

\* one raw row for every branch of _validate_row, filter_by_date_range,
\* anonymize_text and deduplicate_dataframe (a score cell that is not a
\* number is rejected like one that is out of range)
FetchedRows ==
    { Review(1, GoodText, 5, "recent"),
      Review(2, SameTextOtherCase, 4, "recent"),
      Review(3, PiiText, 1, "recent"),
      Review(4, BlankText, 3, "recent"),
      Review(5, NaN, 3, "recent"),
      Review(6, ShortText, 3, "recent"),
      Review(7, GoodText, 0, "recent"),
      Review(8, GoodText, 6, "recent"),
      Review(9, PiiText, 3, NaT),
      Review(10, PiiText, 3, "old") }

ColumnSets ==
    {REQUIRED_FIELDS \cup OPTIONAL_FIELDS}
        \cup {(REQUIRED_FIELDS \cup OPTIONAL_FIELDS) \ {c} : c \in REQUIRED_FIELDS}

\* the row as the raw file with these columns holds it
Project(row, cols) == [c \in cols |-> row[c]]

RECURSIVE Filter(_, _)
\* the rows of a table whose index is in keep, in table order
Filter(rows, keep) ==
    IF rows = <<>> THEN <<>>
    ELSE LET n == Len(rows)
             init == Filter(SubSeq(rows, 1, n - 1), keep)
         IN IF n \in keep THEN Append(init, rows[n]) ELSE init

validate_row(row) ==
    /\ row.content # NaN
    /\ Strip(row.content) # <<>>
    /\ row.score \in 1..5
    /\ row.date # NaT
    /\ Len(row.content) >= MIN_CONTENT_LENGTH

\* Presidio's default operator replaces an entity by its type in brackets
anonymize_text(text) ==
    IF text = <<>> \/ text = NaN THEN text
    ELSE [i \in 1..Len(text) |->
            IF text[i] = "a@b.c" THEN "<EMAIL_ADDRESS>" ELSE text[i]]

Lower(c) == IF c = "G" THEN "g" ELSE c

\* str(text).lower().strip(); the md5 digest is taken as injective
generate_content_hash(text) ==
    LET s == IF text = NaN THEN <<"n", "a", "n">> ELSE text
    IN Strip([i \in 1..Len(s) |-> Lower(s[i])])

\* rows whose hash no earlier row has
unique_rows(rows) ==
    {i \in 1..Len(rows) :
        \A j \in 1..(i - 1) :
            generate_content_hash(rows[j].content)
                # generate_content_hash(rows[i].content)}

\* DataFrame.to_csv then read_csv: an empty cell comes back as NaN
CsvRoundTrip(text) == IF text = <<>> THEN NaN ELSE text

Layer1Fetched ==
    /\ l1_pc = "fetched"
    /\ fetched_columns \in ColumnSets
    /\ columns = fetched_columns
    /\ \E n \in 1..MaxFetched :
         \E rows \in [1..n -> FetchedRows] :
            current_df = [i \in 1..n |-> Project(rows[i], columns)]
    /\ validation_errors = 0
    /\ pii_input = "unset"
    /\ dedup_input = "unset"
    /\ embed_input = "unset"

\* validator.validate_dataframe(df); the errors it returns are dropped
ValidateDataframe ==
    /\ l1_pc = "fetched"
    /\ IF REQUIRED_FIELDS \ columns # {}
       THEN /\ validation_errors' = 1
            /\ UNCHANGED <<current_df, columns>>
       ELSE LET valid == {i \in 1..Len(current_df) : validate_row(current_df[i])}
            IN /\ current_df' = Filter(current_df, valid)
               /\ validation_errors' = Len(current_df) - Cardinality(valid)
               \* pd.DataFrame([]) has no columns
               /\ columns' = IF valid = {} THEN {} ELSE columns
    /\ l1_pc' = "validated"
    /\ UNCHANGED <<fetched_columns, pii_input, dedup_input, embed_input>>
    /\ UNCHANGED notl1

\* validator.filter_by_date_range(validated_df, WEEKS_BACK); df['date']
\* raises KeyError without the column
FilterByDateRange ==
    /\ l1_pc = "validated"
    /\ IF "date" \notin columns
       THEN /\ l1_pc' = "failed"
            /\ UNCHANGED current_df
       ELSE /\ current_df' = Filter(current_df,
                   {i \in 1..Len(current_df) : current_df[i].date = "recent"})
            /\ l1_pc' = "filtered"
    /\ UNCHANGED <<fetched_columns, columns, validation_errors, pii_input,
                   dedup_input, embed_input>>
    /\ UNCHANGED notl1

\* pii_detector.process_dataframe(validated_df); row['content'] raises
\* KeyError on the first row without the column
ProcessDataframePII ==
    /\ l1_pc = "filtered"
    /\ pii_input' = current_df
    /\ IF current_df # <<>> /\ "content" \notin columns
       THEN /\ l1_pc' = "failed"
            /\ UNCHANGED current_df
       ELSE /\ current_df' = [i \in 1..Len(current_df) |->
                   [current_df[i] EXCEPT
                       !.content = anonymize_text(current_df[i].content)]]
            /\ l1_pc' = "anonymized"
    /\ UNCHANGED <<fetched_columns, columns, validation_errors, dedup_input,
                   embed_input>>
    /\ UNCHANGED notl1

\* deduplicator.deduplicate_dataframe(anonymized_df), then final_df.to_csv
DeduplicateDataframe ==
    /\ l1_pc = "anonymized"
    /\ dedup_input' = current_df
    /\ current_df' = Filter(current_df, unique_rows(current_df))
    /\ columns' = IF current_df = <<>> THEN {} ELSE columns
    /\ l1_pc' = "clean"
    /\ UNCHANGED <<fetched_columns, validation_errors, pii_input, embed_input>>
    /\ UNCHANGED notl1

\* run_layer2 step 1: pd.read_csv(reviews_csv) raises on a file without
\* columns; embedding_gen.process_dataframe(df) takes df['content'].tolist()
HandToEmbedding ==
    /\ l1_pc = "clean"
    /\ IF columns = {}
       THEN /\ l1_pc' = "failed"
            /\ UNCHANGED embed_input
       ELSE /\ embed_input' = [i \in 1..Len(current_df) |->
                   CsvRoundTrip(current_df[i].content)]
            /\ l1_pc' = "embedding"
    /\ UNCHANGED <<fetched_columns, columns, current_df, validation_errors,
                   pii_input, dedup_input>>
    /\ UNCHANGED notl1

InitLayer1 == Layer1Fetched /\ Layer2Idle /\ RunIdle /\ EmbeddingIdle /\ MoreIdle

NextLayer1 ==
    \/ ValidateDataframe
    \/ FilterByDateRange
    \/ ProcessDataframePII
    \/ DeduplicateDataframe
    \/ HandToEmbedding

Layer1Spec == InitLayer1 /\ [][NextLayer1]_vars

---------------------------------------------------------------------------
(* EmbeddingGenerator: generate_embeddings hands the texts and batch_size   *)
(* to SentenceTransformer.encode and returns its result.  encode sorts the  *)
(* texts by length, longest first, encodes them batch by batch (each batch  *)
(* padded to its longest text, the padding masked out of the pooling) and   *)
(* puts the vectors back in input order.  A vector is modelled by the       *)
(* tokens it is pooled from; floating-point rounding is not modelled.       *)

DEFAULT_BATCH_SIZE == 32
PAD == "[PAD]"

EmbeddingTexts ==
    { <<>>,
      <<" ">>,
      <<"Good">>,
      <<"good", " ", "app">>,
      <<"bad", " ", "app", " ", "crashes">> }

\* the word pieces of a text: whitespace separates, case is folded
tokenize(text) ==
    LET words == SelectSeq(text, LAMBDA t : t \notin Whitespace)
    IN [i \in 1..Len(words) |-> IF words[i] = "Good" THEN "good" ELSE words[i]]

\* one forward pass: pad to the longest of the batch, pool the unmasked
encode_batch(batch) ==
    LET toks == [i \in 1..Len(batch) |-> tokenize(batch[i])]
        width == IF batch = <<>> THEN 0
                 ELSE CHOOSE w \in {Len(toks[i]) : i \in 1..Len(batch)} :
                        \A i \in 1..Len(batch) : Len(toks[i]) <= w
        padded == [i \in 1..Len(batch) |->
                     [k \in 1..width |->
                        IF k <= Len(toks[i]) THEN toks[i][k] ELSE PAD]]
    IN [i \in 1..Len(batch) |->
          SelectSeq(padded[i], LAMBDA t : t # PAD)]

\* np.argsort of the negated lengths: any order that puts longer texts first
length_sorted_idx(sentences) ==
    {p \in [1..Len(sentences) -> 1..Len(sentences)] :
        /\ \A i, j \in 1..Len(sentences) : i # j => p[i] # p[j]
        /\ \A i \in 1..(Len(sentences) - 1) :
              Len(sentences[p[i]]) >= Len(sentences[p[i + 1]])}

RECURSIVE encode_batches(_, _)
\* the batches of batch_size consecutive sorted texts, encoded and chained
encode_batches(sorted, size) ==
    IF sorted = <<>> THEN <<>>
    ELSE LET n == Min(size, Len(sorted))
         IN encode_batch(SubSeq(sorted, 1, n))
              \o encode_batches(SubSeq(sorted, n + 1, Len(sorted)), size)

\* the vectors left in sorted order
KeepSortedOrder(all_embeddings, idx) == all_embeddings
\* all_embeddings[np.argsort(length_sorted_idx)]: vector of input i is the
\* one at the place input i was sorted to
restore_order(all_embeddings, idx) ==
    [i \in 1..Len(all_embeddings) |->
        all_embeddings[CHOOSE k \in 1..Len(all_embeddings) : idx[k] = i]]

\* self.model.encode(texts, batch_size=batch_size, ...): the possible results
generate_embeddings(sentences, size) ==
    {restore_order(
        encode_batches([k \in 1..Len(sentences) |-> sentences[idx[k]]], size),
        idx) : idx \in length_sorted_idx(sentences)}

EmbeddingReady ==
    /\ emb_pc = "ready"
    /\ \E n \in 0..MaxTexts : texts \in [1..n -> EmbeddingTexts]
    /\ batch_size \in 1..MaxBatch
    /\ embeddings = <<>>

\* embedding_gen.generate_embeddings(texts, batch_size)
GenerateEmbeddings ==
    /\ emb_pc = "ready"
    /\ embeddings' \in generate_embeddings(texts, batch_size)
    /\ emb_pc' = "returned"
    /\ UNCHANGED <<texts, batch_size>>
    /\ UNCHANGED notemb

\* embedding_gen.process_dataframe(df): the content column with the default
\* batch size
ProcessDataframe ==
    /\ emb_pc = "ready"
    /\ batch_size' = DEFAULT_BATCH_SIZE
    /\ embeddings' \in generate_embeddings(texts, DEFAULT_BATCH_SIZE)
    /\ emb_pc' = "returned"
    /\ UNCHANGED texts
    /\ UNCHANGED notemb

InitEmbedding == EmbeddingReady /\ Layer2Idle /\ RunIdle /\ Layer1Idle /\ MoreIdle

NextEmbedding ==
    \/ GenerateEmbeddings
    \/ ProcessDataframe

EmbeddingSpec == InitEmbedding /\ [][NextEmbedding]_vars

---------------------------------------------------------------------------
(* HDBSCANClustering as an object: the constructor, then fit_predict,       *)
(* assign_to_dataframe and get_cluster_info in any order.  The embeddings   *)
(* are modelled by their number and by whether all of them are mutually     *)
(* distant.  hdbscan.HDBSCAN is modelled as the library works: its input    *)
(* check rejects an array without samples, a cluster has at least           *)
(* min_cluster_size members, points in no cluster are noise.                *)

MIN_CLUSTER_SIZE == 5
\* values of the min_cluster_size constructor argument (0 stands for None)
MinClusterSizeArgs == {0, 2}

\* min_cluster_size or config.MIN_CLUSTER_SIZE
effective_min_cluster_size(arg) == IF arg = 0 THEN MIN_CLUSTER_SIZE ELSE arg

AllNoise(n) == [i \in 1..n |-> NOISE]

\* list(self.labels).count(label)
ClusterCount(l, c) == Cardinality({i \in DOMAIN l : l[i] = c})

\* the clusters of one fit, and their sizes on n points (with the noise
\* points under NOISE): a cluster has at least min_cluster_size members.
\* The points come noise first, then cluster by cluster.
FitClusterCounts == 0..2
FitSizes(n, mcs, k) ==
    {sz \in [NOISE..(k - 1) -> 0..n] :
        /\ \A c \in 0..(k - 1) : sz[c] >= mcs
        /\ Len(LabelsOf(sz, NOISE, k)) = n}

\* the fits with these cluster sizes: in each cluster either one member or
\* every member has probability 1.0
fits_of_sizes(sz, k) ==
    {[raised |-> FALSE,
      labels |-> LabelsOf(sz, NOISE, k),
      probabilities |-> ProbabilitiesOf(sz, hi, NOISE, k)] :
        hi \in {[c \in NOISE..(k - 1) |-> 1], sz}}

\* the outcomes of HDBSCAN(...).fit_predict on n points: check_array raises
\* ValueError on an array with no sample; the library's handling of a
\* single point is left open (it raises or labels the point noise)
hdbscan_fit_predict(n, distant, mcs) ==
    LET raises == {[raised |-> TRUE, labels |-> <<>>, probabilities |-> <<>>]}
        noise == {[raised |-> FALSE, labels |-> AllNoise(n),
                   probabilities |-> [i \in 1..n |-> 0]]}
    IN IF n = 0 THEN raises
       ELSE IF n = 1 THEN raises \cup noise
       ELSE IF n < mcs \/ distant THEN noise
       ELSE UNION {UNION {fits_of_sizes(sz, k) : sz \in FitSizes(n, mcs, k)} :
                   k \in FitClusterCounts}

\* the labels get_cluster_info reports a size for
InfoClustersAll(l) == Range(l)
info_clusters(l) == Range(l) \ {NOISE}

get_cluster_info(fitted, l) ==
    IF ~fitted THEN <<>>
    ELSE [n_clusters |->
              Cardinality(Range(l)) - (IF NOISE \in Range(l) THEN 1 ELSE 0),
          n_noise |-> ClusterCount(l, NOISE),
          cluster_sizes |->
              [k \in {<<"cluster_", c>> : c \in info_clusters(l)} |->
                  ClusterCount(l, k[2])],
          total_points |-> Len(l)]

\* the caller's table after assign_to_dataframe(df): the columns are set on
\* df.copy()
AssignInPlace(table, lab, prob) == assign_to_dataframe(table, lab, prob)
caller_table_after_assign(table, lab, prob) == table

ClustererNew ==
    /\ clu_min_cluster_size \in
          {effective_min_cluster_size(a) : a \in MinClusterSizeArgs}
    /\ clu_fitted = FALSE
    /\ clu_labels = <<>>
    /\ clu_probabilities = <<>>
    /\ clu_last = [n |-> 0, labels |-> <<>>, probabilities |-> <<>>]
    /\ clu_call = [op |-> "none"]
    /\ clu_df = <<>>
    /\ clu_calls = 0

\* clusterer.fit_predict(embeddings): an exception of the library leaves the
\* call before labels and probabilities are assigned
ClustererFitPredict ==
    /\ clu_calls < MaxCalls
    /\ clu_calls' = clu_calls + 1
    /\ \E n \in 0..MaxPoints, distant \in BOOLEAN :
         \E out \in hdbscan_fit_predict(n, distant, clu_min_cluster_size) :
            /\ clu_call' = [op |-> "fit_predict", raised |-> out.raised,
                            points |-> n, distant |-> distant,
                            result |-> out.labels]
            /\ IF out.raised
               THEN UNCHANGED <<clu_fitted, clu_labels, clu_probabilities,
                                clu_last>>
               ELSE /\ clu_fitted' = TRUE
                    /\ clu_labels' = out.labels
                    /\ clu_probabilities' = out.probabilities
                    /\ clu_last' = [n |-> n, labels |-> out.labels,
                                    probabilities |-> out.probabilities]
    /\ UNCHANGED <<clu_min_cluster_size, clu_df>>
    /\ UNCHANGED notclu

\* clusterer.assign_to_dataframe(df): ValueError before any fit_predict;
\* pandas raises ValueError when the table and the labels differ in length
ClustererAssignToDataframe ==
    /\ clu_calls < MaxCalls
    /\ clu_calls' = clu_calls + 1
    /\ \E m \in 1..MaxPoints :
         LET table == [i \in 1..m |-> [review_id |-> i]]
         IN IF ~clu_fitted \/ m # Len(clu_labels)
            THEN /\ clu_call' = [op |-> "assign_to_dataframe",
                                 raised |-> TRUE, table |-> table,
                                 result |-> <<>>]
                 /\ clu_df' = table
            ELSE /\ clu_call' =
                       [op |-> "assign_to_dataframe", raised |-> FALSE,
                        table |-> table,
                        result |-> assign_to_dataframe(table, clu_labels,
                                                       clu_probabilities)]
                 /\ clu_df' = caller_table_after_assign(table, clu_labels,
                                                        clu_probabilities)
    /\ UNCHANGED <<clu_min_cluster_size, clu_fitted, clu_labels,
                   clu_probabilities, clu_last>>
    /\ UNCHANGED notclu

\* clusterer.get_cluster_info()
ClustererGetClusterInfo ==
    /\ clu_calls < MaxCalls
    /\ clu_calls' = clu_calls + 1
    /\ clu_call' = [op |-> "get_cluster_info", raised |-> FALSE,
                    result |-> get_cluster_info(clu_fitted, clu_labels)]
    /\ UNCHANGED <<clu_min_cluster_size, clu_fitted, clu_labels,
                   clu_probabilities, clu_last, clu_df>>
    /\ UNCHANGED notclu

InitClusterer ==
    /\ ClustererNew
    /\ Layer2Idle /\ RunIdle /\ Layer1Idle /\ EmbeddingIdle
    /\ GenerationIdle /\ EmailIdle /\ DeduplicatorIdle

NextClusterer ==
    \/ ClustererFitPredict
    \/ ClustererAssignToDataframe
    \/ ClustererGetClusterInfo

ClustererSpec == InitClusterer /\ [][NextClusterer]_vars

---------------------------------------------------------------------------
(* Layer 3: QuoteExtractor.extract_quotes and                               *)
(* ActionGenerator.generate_actions.  A review is its position in the list  *)
(* and its length in characters; an LLM response is a sequence of lines,   *)
(* each a sequence of tokens.  llm.invoke either raises or returns a       *)
(* response.                                                                *)

MAX_QUOTES == 3
MAX_ACTION_ITEMS == 3
\* reviews[i][:200]
QUOTE_CHARS == 200
\* the argument left out (None)
NoneArg == -1

NumArgs == {NoneArg} \cup (0..MaxNum)
\* QuoteExtractor(num_quotes=...) / ActionGenerator(num_actions=...)
DefaultArgs == {NoneArg, 2}

\* num_quotes or self.num_quotes: None and 0 both give the default
num_or_default(arg, default) ==
    IF arg = NoneArg \/ arg = 0 THEN default ELSE arg

ReviewLen(i) == IF i % 2 = 0 THEN 250 ELSE 40

BulletLine == <<"-", " ", "slow", " ", "app">>
NumberedLine == <<"1", ".", " ", "fix", " ", "login">>
BlankLine == <<" ">>
ResponseLines == {BulletLine, NumberedLine, BlankLine}

LLMOutcomes ==
    {[fails |-> TRUE, lines |-> <<>>]} \cup
    {[fails |-> FALSE, lines |-> l] :
        l \in UNION {[1..n -> ResponseLines] : n \in 0..MaxLines}}

\* str.lstrip(chars)
RECURSIVE LStripChars(_, _)
LStripChars(s, chars) ==
    IF s # <<>> /\ Head(s) \in chars THEN LStripChars(Tail(s), chars) ELSE s

NonBlank(q) == Strip(q) # <<>>

\* q.strip().lstrip('-').lstrip(bullet).lstrip('*').strip() for the lines
\* that are not blank
parse_quotes(lines) ==
    LET kept == SelectSeq(lines, NonBlank)
    IN [i \in DOMAIN kept |->
          Strip(LStripChars(LStripChars(LStripChars(Strip(kept[i]), {"-"}),
                                        {"bullet"}), {"*"}))]

\* the three characters of the mis-decoded bullet in action_generator.py
MojibakeBullet == {"a-circumflex", "euro", "cent"}

\* the same with the mis-decoded bullet, then .lstrip('1234567890.')
parse_actions(lines) ==
    LET kept == SelectSeq(lines, NonBlank)
        digits == {"0", "1", "2", "3", "4", "5", "6", "7", "8", "9", "."}
    IN [i \in DOMAIN kept |->
          Strip(LStripChars(
                  LStripChars(LStripChars(LStripChars(Strip(kept[i]), {"-"}),
                                          MojibakeBullet), {"*"}),
                  digits))]

\* s[:n]
Take(s, n) == SubSeq(s, 1, Min(n, Len(s)))

\* except Exception: the first reviews, cut to 200 characters
QuotesErrorPropagates(n, num) == [raised |-> TRUE, result |-> <<>>]
quotes_fallback(n, num) ==
    [raised |-> FALSE,
     result |-> [i \in 1..Min(num, n) |->
                    <<i, Min(ReviewLen(i), QUOTE_CHARS), "...">>]]

extract_quotes(n, arg, default, llm) ==
    LET num_quotes == num_or_default(arg, default)
    IN IF llm.fails
       THEN quotes_fallback(n, num_quotes)
       ELSE [raised |-> FALSE,
             result |-> Take(parse_quotes(llm.lines), num_quotes)]

\* except Exception: three canned actions
actions_fallback ==
    [raised |-> FALSE,
     result |-> <<"Review and prioritize user feedback",
                  "Improve app performance and stability",
                  "Enhance customer support response time">>]

generate_actions(arg, default, llm) ==
    LET num_actions == num_or_default(arg, default)
    IN IF llm.fails
       THEN actions_fallback
       ELSE [raised |-> FALSE,
             result |-> Take(parse_actions(llm.lines), num_actions)]

GenerationReady ==
    /\ gen_pc = "ready"
    /\ gen_in \in
         [reviews : 0..MaxGenReviews, num : NumArgs,
          num_quotes : {num_or_default(a, MAX_QUOTES) : a \in DefaultArgs},
          num_actions :
              {num_or_default(a, MAX_ACTION_ITEMS) : a \in DefaultArgs},
          llm : LLMOutcomes]
    /\ gen_in.num_quotes = gen_in.num_actions
    /\ gen_call = [op |-> "none"]

ExtractQuotes ==
    /\ gen_pc = "ready"
    /\ gen_pc' = "done"
    /\ LET out == extract_quotes(gen_in.reviews, gen_in.num,
                                 gen_in.num_quotes, gen_in.llm)
       IN gen_call' = [op |-> "extract_quotes", raised |-> out.raised,
                       result |-> out.result]
    /\ UNCHANGED gen_in
    /\ UNCHANGED notgen

GenerateActions ==
    /\ gen_pc = "ready"
    /\ gen_pc' = "done"
    /\ LET out == generate_actions(gen_in.num, gen_in.num_actions,
                                   gen_in.llm)
       IN gen_call' = [op |-> "generate_actions", raised |-> out.raised,
                       result |-> out.result]
    /\ UNCHANGED gen_in
    /\ UNCHANGED notgen

InitGeneration ==
    /\ GenerationReady
    /\ Layer2Idle /\ RunIdle /\ Layer1Idle /\ EmbeddingIdle
    /\ ClustererIdle /\ EmailIdle /\ DeduplicatorIdle

NextGeneration == ExtractQuotes \/ GenerateActions

GenerationSpec == InitGeneration /\ [][NextGeneration]_vars

---------------------------------------------------------------------------
(* Layer 4: EmailDrafter.  The environment gives EMAIL_ADDRESS,             *)
(* EMAIL_PASSWORD and ENABLE_EMAIL_SENDING; config is ShippedConfig.        *)


RecipientArgs == {None, "", "lead@example.com"}
AddressValues == {None, "", "bot@example.com"}
PasswordValues == {None, "secret"}
EnableValues == {None, "", "1", "TRUE", "Yes", "0", "on"}
\* what the SMTP conversation does: everything works, or the connection,
\* the login, the transfer or the closing QUIT fails
SmtpOutcomes == {"ok", "connect_fails", "login_fails", "send_fails",
                 "quit_fails"}

\* str.lower() on the values of EnableValues
LowerValue(v) ==
    IF v = "TRUE" THEN "true" ELSE IF v = "Yes" THEN "yes" ELSE v

\* os.getenv("ENABLE_EMAIL_SENDING", "").lower() in ("1", "true", "yes")
EnabledAlways(v) == TRUE
sending_enabled(v) ==
    LowerValue(IF v = None THEN "" ELSE v) \in {"1", "true", "yes"}

\* the message is with the server once send_message has returned
message_sent(outcome) == outcome \in {"ok", "quit_fails"}

EmailReady ==
    /\ mail_pc = "new"
    /\ mail_env \in [recipient : RecipientArgs,
                     EMAIL_ADDRESS : AddressValues,
                     EMAIL_PASSWORD : PasswordValues,
                     ENABLE_EMAIL_SENDING : EnableValues]
    /\ mail_recipient = ""
    /\ mail_call = [op |-> "none"]
    /\ mail_sent = <<>>

\* EmailDrafter(recipient)
NewEmailDrafter ==
    /\ mail_pc = "new"
    /\ LET r == resolve_recipient(mail_env.recipient,
                                  ShippedConfig(mail_env.EMAIL_ADDRESS,
                                                mail_env.EMAIL_PASSWORD))
       IN /\ mail_pc' = IF r.raised THEN "raised" ELSE "constructed"
          /\ mail_recipient' = r.recipient
          /\ mail_call' = [op |-> "__init__", raised |-> r.raised,
                           result |-> FALSE]
    /\ UNCHANGED <<mail_env, mail_sent>>
    /\ UNCHANGED notmail

\* drafter.send_email_from_draft(email_content)
SendEmailFromDraft ==
    /\ mail_pc = "constructed"
    /\ mail_pc' = "returned"
    /\ IF ~sending_enabled(mail_env.ENABLE_EMAIL_SENDING)
       THEN /\ mail_call' = [op |-> "send_email_from_draft",
                             raised |-> FALSE, result |-> FALSE,
                             smtp |-> "unused"]
            /\ UNCHANGED mail_sent
       ELSE IF ~(Truthy(mail_env.EMAIL_ADDRESS)
                 /\ Truthy(mail_env.EMAIL_PASSWORD))
       THEN /\ mail_call' = [op |-> "send_email_from_draft",
                             raised |-> FALSE, result |-> FALSE,
                             smtp |-> "unused"]
            /\ UNCHANGED mail_sent
       ELSE \E outcome \in SmtpOutcomes :
            /\ mail_call' = [op |-> "send_email_from_draft",
                             raised |-> FALSE, result |-> (outcome = "ok"),
                             smtp |-> outcome]
            /\ mail_sent' =
                 IF message_sent(outcome)
                 THEN Append(mail_sent,
                             [From |-> mail_env.EMAIL_ADDRESS,
                              To |-> mail_recipient])
                 ELSE mail_sent
    /\ UNCHANGED <<mail_env, mail_recipient>>
    /\ UNCHANGED notmail

InitEmail ==
    /\ EmailReady
    /\ Layer2Idle /\ RunIdle /\ Layer1Idle /\ EmbeddingIdle
    /\ ClustererIdle /\ GenerationIdle /\ DeduplicatorIdle

NextEmail == NewEmailDrafter \/ SendEmailFromDraft

EmailSpec == InitEmail /\ [][NextEmail]_vars

---------------------------------------------------------------------------
(* Deduplicator as an object: deduplicate_dataframe on a table, then on    *)
(* the table it returned.                                                   *)

NanText == <<"n", "a", "n">>
DedupContents == {GoodText, SameTextOtherCase, PiiText, NaN, NanText}

DedupTables ==
    UNION {{[i \in 1..n |-> [review_id |-> i, content |-> c[i]]] :
              c \in [1..n -> DedupContents]} : n \in 0..MaxDedupRows}

\* self.seen_hashes = set() at the start of every call
KeepSeen(before) == before
initial_seen(before) == {}

\* the loop over df.iterrows(), from row i on
RECURSIVE dedup_loop(_, _, _, _, _)
dedup_loop(rows, i, seen, kept, duplicates) ==
    IF i > Len(rows)
    THEN [rows |-> kept, seen_hashes |-> seen, duplicate_count |-> duplicates]
    ELSE LET content_hash == generate_content_hash(rows[i].content)
         IN IF content_hash \notin seen
            THEN dedup_loop(rows, i + 1, seen \cup {content_hash},
                            Append(kept, rows[i]), duplicates)
            ELSE dedup_loop(rows, i + 1, seen, kept, duplicates + 1)

deduplicate_dataframe(rows, seen_before) ==
    dedup_loop(rows, 1, initial_seen(seen_before), <<>>, 0)

get_statistics ==
    [unique_reviews |-> Cardinality(dd_seen_hashes),
     duplicates_removed |-> dd_duplicate_count]

DeduplicatorNew ==
    /\ dd_pc = "new"
    /\ dd_seen_hashes = {}
    /\ dd_duplicate_count = 0
    /\ dd_input \in DedupTables
    /\ dd_output = <<>>

\* deduplicator.deduplicate_dataframe(df)
Deduplicate ==
    /\ dd_pc = "new"
    /\ dd_pc' = "once"
    /\ LET out == deduplicate_dataframe(dd_input, dd_seen_hashes)
       IN /\ dd_output' = out.rows
          /\ dd_seen_hashes' = out.seen_hashes
          /\ dd_duplicate_count' = out.duplicate_count
    /\ UNCHANGED dd_input
    /\ UNCHANGED notdd

\* the same object called on the table it returned
DeduplicateAgain ==
    /\ dd_pc = "once"
    /\ dd_pc' = "twice"
    /\ dd_input' = dd_output
    /\ LET out == deduplicate_dataframe(dd_output, dd_seen_hashes)
       IN /\ dd_output' = out.rows
          /\ dd_seen_hashes' = out.seen_hashes
          /\ dd_duplicate_count' = out.duplicate_count
    /\ UNCHANGED notdd

InitDeduplicator ==
    /\ DeduplicatorNew
    /\ Layer2Idle /\ RunIdle /\ Layer1Idle /\ EmbeddingIdle
    /\ ClustererIdle /\ GenerationIdle /\ EmailIdle

NextDeduplicator == Deduplicate \/ DeduplicateAgain

DeduplicatorSpec == InitDeduplicator /\ [][NextDeduplicator]_vars

---------------------------------------------------------------------------
(* Properties of the enforcer (checked under EnforcerSpec) *)

ThemeColumn(table) == {table[i].theme_name : i \in 1..Len(table)}

Enforced == pc \in {"enforced", "enforced2"}

\* the first call met more distinct non-Miscellaneous themes than the limit
Merged == Cardinality(unique_themes(cluster_themes)) > max_themes

InputSizes == get_theme_sizes(df_themed)

\* C1: after enforce_theme_limit the returned mapping and the returned
\* table's theme_name column hold at most max_themes distinct names other
\* than "Miscellaneous", hence at most max_themes + 1 distinct labels.
C1_CardinalityBound ==
    Enforced =>
        /\ Cardinality(Range(final_themes) \ {Miscellaneous}) <= max_themes
        /\ Cardinality(ThemeColumn(df_final) \ {Miscellaneous}) <= max_themes
        /\ Cardinality(Range(final_themes) \cup ThemeColumn(df_final))
              <= max_themes + 1

C1_Witness ==
    /\ pc = "enforced"
    /\ Merged
    /\ Miscellaneous \in ThemeColumn(df_final)
    /\ Cardinality(ThemeColumn(df_final)) = max_themes + 1

NonSentinel(themes) == Range(themes) \ {Miscellaneous, OtherIssues}

\* C2 as stated: for any input, after enforce_theme_limit at most
\* max_themes - 1 distinct names are neither "Miscellaneous" nor
\* "Other Issues".
C2_Original ==
    pc = "enforced" =>
        Cardinality(NonSentinel(final_themes)) <= max_themes - 1

\* C2 amended: after enforce_theme_limit at most max_themes distinct names
\* are neither "Miscellaneous" nor "Other Issues", and at most
\* max_themes - 1 when the input had more than max_themes distinct
\* non-Miscellaneous names.
C2_Amended ==
    pc = "enforced" =>
        /\ Cardinality(NonSentinel(final_themes)) <= max_themes
        /\ Merged => Cardinality(NonSentinel(final_themes)) <= max_themes - 1

C2_Witness ==
    /\ pc = "enforced"
    /\ Merged
    /\ max_themes >= 2
    /\ Cardinality(NonSentinel(final_themes)) = max_themes - 1

\* C3: when more than max_themes distinct non-Miscellaneous names exist,
\* exactly max_themes - 1 of them are kept unchanged, none smaller than a
\* remapped one, and every other non-Miscellaneous theme becomes
\* "Other Issues", whatever the number of Miscellaneous rows.
C3_KeepsTopThemes ==
    (pc = "enforced" /\ Merged) =>
        \E K \in SUBSET unique_themes(cluster_themes) :
            /\ Cardinality(K) = max_themes - 1
            /\ \A t \in K : \A u \in unique_themes(cluster_themes) \ K :
                  InputSizes[u] <= InputSizes[t]
            /\ \A c \in DOMAIN cluster_themes :
                  cluster_themes[c] # Miscellaneous =>
                      final_themes[c] =
                          IF cluster_themes[c] \in K
                          THEN cluster_themes[c]
                          ELSE OtherIssues

\* C4: with at most max_themes distinct non-Miscellaneous names the call
\* returns the table and the mapping it was given.
C4_IdentityWithinLimit ==
    (pc = "enforced" /\ ~Merged) =>
        /\ final_themes = cluster_themes
        /\ df_final = df_themed

C4_Witness ==
    /\ pc = "enforced"
    /\ Cardinality(unique_themes(cluster_themes)) = max_themes
    /\ Miscellaneous \in Range(cluster_themes)
    /\ final_themes = cluster_themes

\* C5: a second enforce_theme_limit on the output of the first changes
\* neither the mapping nor any row's theme_name.
C5_Idempotent ==
    [][(pc = "enforced" /\ pc' = "enforced2") =>
          (final_themes' = final_themes /\ df_final' = df_final)]_vars

C5_Witness ==
    /\ pc = "enforced2"
    /\ Merged
    /\ final_themes # cluster_themes
    /\ Cardinality(unique_themes(final_themes)) = max_themes

\* the themes of the max_themes - 1 largest counts, the counts being distinct
Largest ==
    {t \in DOMAIN InputSizes :
        Cardinality({u \in DOMAIN InputSizes : InputSizes[u] > InputSizes[t]})
            < max_themes - 1}

C6_Case ==
    /\ pc = "enforced"
    /\ Merged
    /\ Miscellaneous \notin ThemeColumn(df_themed)
    /\ \A t, u \in DOMAIN InputSizes : t # u => InputSizes[t] # InputSizes[u]

C6_KeepsLargest ==
    \A c \in DOMAIN cluster_themes :
        final_themes[c] =
            IF cluster_themes[c] \in Largest THEN cluster_themes[c]
            ELSE OtherIssues

\* C6 as stated: with more than max_themes themes of pairwise different
\* counts and no Miscellaneous rows, the max_themes - 1 largest are kept,
\* the others become "Other Issues", and the result has exactly max_themes
\* distinct labels, none of them "Miscellaneous".
C6_Original ==
    C6_Case =>
        /\ C6_KeepsLargest
        /\ Cardinality(Range(final_themes)) = max_themes
        /\ Cardinality(ThemeColumn(df_final)) = max_themes
        /\ Miscellaneous \notin ThemeColumn(df_final)

\* C6 amended: as stated, except that the result has max_themes - 1 distinct
\* labels when one of the kept themes is itself named "Other Issues".
C6_Amended ==
    C6_Case =>
        /\ C6_KeepsLargest
        /\ Cardinality(Range(final_themes)) =
              IF OtherIssues \in Largest THEN max_themes - 1 ELSE max_themes
        /\ ThemeColumn(df_final) = Range(final_themes)
        /\ Miscellaneous \notin ThemeColumn(df_final)

C6_Witness ==
    /\ C6_Case
    /\ max_themes = 2
    /\ Cardinality(Range(final_themes)) = max_themes
    /\ \E c \in DOMAIN cluster_themes :
          cluster_themes[c] # OtherIssues /\ final_themes[c] = OtherIssues

\* C7: a cluster is "Miscellaneous" after enforce_theme_limit exactly when it
\* was before; the noise cluster is never remapped to "Other Issues".
C7_SentinelsDistinct ==
    pc = "enforced" =>
        /\ DOMAIN final_themes = DOMAIN cluster_themes
        /\ \A c \in DOMAIN cluster_themes :
              (cluster_themes[c] = Miscellaneous)
                  <=> (final_themes[c] = Miscellaneous)
        /\ \A i \in 1..Len(df_themed) :
              (df_themed[i].theme_name = Miscellaneous)
                  <=> (df_final[i].theme_name = Miscellaneous)

C7_Witness ==
    /\ pc = "enforced"
    /\ Merged
    /\ NOISE \in DOMAIN final_themes
    /\ final_themes[NOISE] = Miscellaneous
    /\ \A K \in keep_themes(InputSizes, keep_count(max_themes)) :
          Miscellaneous \notin K
    /\ \E c \in DOMAIN final_themes :
          final_themes[c] = OtherIssues /\ cluster_themes[c] # OtherIssues

---------------------------------------------------------------------------
(* Properties of a run of layer 2 (checked under Spec) *)

\* the cluster ids fit_predict gave out
Observed == Range(labels)

Labeled == pc \in {"labeled", "themed", "enforced", "enforced2"}

\* C8: clustering, labeling and enforcement neither drop nor add a row, and
\* every review of the final table carries the cluster_label it was given
\* and a theme_name that is not missing.
C8_Totality ==
    /\ pc \notin {"start", "fitted"} =>
          /\ Len(df_clustered) = Len(df)
          /\ \A i \in 1..Len(df) :
                /\ df_clustered[i].review_id = df[i].review_id
                /\ df_clustered[i].cluster_label = labels[i]
    /\ Enforced =>
          /\ Len(df_final) = Len(df)
          /\ \A i \in 1..Len(df) :
                /\ df_final[i].review_id = df[i].review_id
                /\ df_final[i].cluster_label = labels[i]
                /\ df_final[i].theme_name # NaN
                /\ df_final[i].theme_name = final_themes[labels[i]]

C8_Witness ==
    /\ pc = "enforced"
    /\ Merged
    /\ NOISE \in Observed
    /\ \E i \in 1..Len(df_final) : df_final[i].theme_name = OtherIssues
    /\ \E i \in 1..Len(df_final) : df_final[i].theme_name = Miscellaneous

\* C9: label_all_clusters has returned only when the label call of every
\* non-noise cluster is over, and the keys of its mapping are exactly the
\* cluster ids of the table, -1 among them when there are noise rows.
C9_LabelBarrier ==
    Labeled =>
        /\ pending = {}
        /\ called = Observed \ {NOISE}
        /\ DOMAIN cluster_themes = Observed

C9_Witness ==
    /\ pc = "labeled"
    /\ Observed = {NOISE, 0, 1}
    /\ cluster_themes[0] = Fallback
    /\ cluster_themes[1] # Fallback

\* C10: the collaborator is never called for the noise cluster, which is
\* labeled "Miscellaneous"; with noise rows only there is no call at all and
\* the mapping is {-1: "Miscellaneous"}.
C10_NoiseNeverSent ==
    /\ NOISE \notin called
    /\ Labeled =>
          /\ NOISE \in Observed => cluster_themes[NOISE] = Miscellaneous
          /\ Observed = {NOISE} =>
                (called = {} /\ cluster_themes = (NOISE :> Miscellaneous))

C10_Witness ==
    /\ pc = "labeled"
    /\ Len(df) >= 2
    /\ Observed = {NOISE}
    /\ cluster_themes = (NOISE :> Miscellaneous)

---------------------------------------------------------------------------
(* Properties of the labeler's calls (checked under Spec) *)

\* C11: when the collaborator's call for a cluster raises, the cluster gets
\* the fallback label, nothing propagates, and label_all_clusters goes on to
\* label the remaining clusters and returns the total mapping.
C11_FallbackOnError ==
    /\ pc # "raised"
    /\ \A c \in DOMAIN llm_calls :
          llm_calls[c].raised =>
              (c \in DOMAIN cluster_themes /\ cluster_themes[c] = Fallback)
    /\ Labeled => DOMAIN cluster_themes = Observed

C11_Witness ==
    /\ pc = "labeled"
    /\ Observed = {0, 1}
    /\ llm_calls[0].raised
    /\ ~llm_calls[1].raised
    /\ cluster_themes[0] = Fallback
    /\ cluster_themes[1] = <<"Login", " ", "Issues">>

\* C12: a completion that is empty or whitespace only gives the cluster the
\* fallback label, not the unusable text.
C12_UnusableTextFallback ==
    \A c \in DOMAIN llm_calls \cap DOMAIN cluster_themes :
        (~llm_calls[c].raised /\ Strip(llm_calls[c].content) = <<>>) =>
            cluster_themes[c] = Fallback

\* words of a text, as str.split() counts them
WordCount(s) ==
    Cardinality({i \in 1..Len(s) :
        s[i] \notin Whitespace /\ (i = 1 \/ s[i - 1] \in Whitespace)})

\* C14: every theme name given to a non-noise cluster has 2 to 4 words,
\* whatever the collaborator returned.
C14_TwoToFourWords ==
    \A c \in DOMAIN cluster_themes \ {NOISE} :
        WordCount(cluster_themes[c]) \in 2..4

---------------------------------------------------------------------------
(* Properties of the labeler's sample (checked under LabelerSpec) *)

Members(c) == {i \in 1..Len(labels) : labels[i] = c}

\* C13: the reviews in a cluster's prompt are members of that cluster, at
\* most 10, and no member left out has a higher cluster_probability than one
\* that is in.
C13_PromptSample ==
    \A c \in DOMAIN llm_calls :
        /\ c # NOISE
        /\ llm_calls[c].reviews # {}
        /\ llm_calls[c].reviews \subseteq Members(c)
        /\ Cardinality(llm_calls[c].reviews) <= 10
        /\ \A i \in llm_calls[c].reviews :
              \A j \in Members(c) \ llm_calls[c].reviews :
                  probabilities[j] <= probabilities[i]

C13_Witness ==
    /\ pc = "labeled"
    /\ 0 \in DOMAIN llm_calls
    /\ Cardinality(Members(0)) > 10
    /\ Cardinality(llm_calls[0].reviews) = 10
    /\ \E i \in llm_calls[0].reviews : probabilities[i] = 10
    /\ \E i \in llm_calls[0].reviews : probabilities[i] = 5
    /\ \E j \in Members(0) \ llm_calls[0].reviews : probabilities[j] = 5

---------------------------------------------------------------------------
(* Properties of a run of the whole pipeline (checked under RunSpec) *)

\* C15: the stages start in the order scrape, validate, redact PII,
\* deduplicate, embedding, clustering, labeling, enforcement, content
\* generation, distribution, and when a stage has started every stage before
\* it has completed.
C15_StrictlySequential ==
    /\ Len(started) <= Len(RunStages)
    /\ \A i \in 1..Len(started) :
          /\ started[i] = RunStages[i]
          /\ \A j \in 1..(i - 1) : RunStages[j] \in finished
    /\ finished \subseteq Range(started)
    /\ Len(started) - Cardinality(finished) \in {0, 1}

C15_Witness ==
    /\ run_pc = "running"
    /\ started[Len(started)] = "email"
    /\ finished = AllStages \ {"email"}

\* C16: after a stage raises an error that no step recovers, no later stage
\* starts, the error is logged and re-raised, and the run is never reported
\* complete; completion is reported only when every stage of the four layers
\* has finished.
C16_FailureAbortsRun ==
    /\ failed_stage # "none" =>
          /\ started[Len(started)] = failed_stage
          /\ failed_stage \notin finished
          /\ ~reported
          /\ run_pc \in {"except", "logged", "failed"}
    /\ run_pc \in {"logged", "failed"} => error_logged
    /\ run_pc = "failed" => reraised
    /\ run_pc \notin {"ready", "running"} =>
          (failed_stage # "none" <=> run_pc # "complete")
    /\ reported => (finished = AllStages /\ failed_stage = "none")
    /\ run_pc = "complete" <=> reported

C16_Witness ==
    /\ run_pc = "failed"
    /\ failed_stage = "enforcement"
    /\ "labeling" \in recovered
    /\ error_logged
    /\ reraised
    /\ ~reported

---------------------------------------------------------------------------
(* Properties of layer 1 (checked under Layer1Spec) *)

---------------------------------------------------------------------------
(* Properties of the embedding generator (checked under EmbeddingSpec) *)

\* C19: when an empty or whitespace-only text is among the texts, the call
\* fails with a MalformedInputError and returns no vector.
C19_EmptyTextFailsFast ==
    (emb_pc # "ready" /\ \E i \in 1..Len(texts) : Strip(texts[i]) = <<>>) =>
        /\ emb_pc = "raised"
        /\ embeddings = <<>>

\* the embedding of one text, encoded on its own
EmbeddingOf(text) == encode_batch(<<text>>)[1]

---------------------------------------------------------------------------
(* Properties of the clusterer (checked under ClustererSpec) *)

\* C21: fit_predict on fewer than min_cluster_size points, or on points that
\* are all mutually distant, returns normally with every point labeled -1.
C21_DegenerateNeverFails ==
    (/\ clu_call.op = "fit_predict"
     /\ (clu_call.points < clu_min_cluster_size \/ clu_call.distant)) =>
        /\ ~clu_call.raised
        /\ clu_call.result = AllNoise(clu_call.points)

\* C26: assign_to_dataframe before any fit_predict raises and adds no
\* column, get_cluster_info before any fit_predict returns an empty result;
\* after a fit_predict, assign_to_dataframe on a table of as many rows as
\* points returns a copy of the table whose cluster_label and
\* cluster_probability are those of the most recent fit_predict that
\* returned, and in every case the caller's table is left as it was.
C26_ClustererProtocol ==
    /\ (clu_call.op = "assign_to_dataframe" /\ ~clu_fitted) =>
          /\ clu_call.raised
          /\ clu_call.result = <<>>
    /\ (clu_call.op = "get_cluster_info" /\ ~clu_fitted) =>
          DOMAIN clu_call.result = {}
    /\ (/\ clu_call.op = "assign_to_dataframe"
        /\ clu_fitted
        /\ Len(clu_call.table) = clu_last.n) =>
          /\ ~clu_call.raised
          /\ Len(clu_call.result) = Len(clu_call.table)
          /\ \A i \in DOMAIN clu_call.table :
                /\ clu_call.result[i].review_id = clu_call.table[i].review_id
                /\ clu_call.result[i].cluster_label = clu_last.labels[i]
                /\ clu_call.result[i].cluster_probability =
                       clu_last.probabilities[i]
    /\ clu_call.op = "assign_to_dataframe" =>
          /\ clu_df = clu_call.table
          /\ \A i \in DOMAIN clu_df : DOMAIN clu_df[i] = {"review_id"}

\* a second fit_predict replaced the labels, then the table was assigned
C26_Witness ==
    /\ clu_calls = 3
    /\ clu_call.op = "assign_to_dataframe"
    /\ ~clu_call.raised
    /\ \E i \in DOMAIN clu_call.result : clu_call.result[i].cluster_label = 0
    /\ \E i \in DOMAIN clu_call.result :
          clu_call.result[i].cluster_label = NOISE

RECURSIVE SumOver(_, _)
SumOver(f, S) ==
    IF S = {} THEN 0
    ELSE LET k == CHOOSE x \in S : TRUE IN f[k] + SumOver(f, S \ {k})

\* C30: get_cluster_info after a fit_predict that returned: total_points is
\* the number of points, n_noise plus the cluster sizes add up to it,
\* n_clusters is the number of entries of cluster_sizes, and no entry is for
\* the noise label.
C30_InfoConsistent ==
    (clu_call.op = "get_cluster_info" /\ clu_fitted) =>
        LET info == clu_call.result
            sizes == info.cluster_sizes
        IN /\ info.total_points = clu_last.n
           /\ info.n_noise + SumOver(sizes, DOMAIN sizes) = info.total_points
           /\ info.n_clusters = Cardinality(DOMAIN sizes)
           /\ \A k \in DOMAIN sizes : k[2] # NOISE

\* a fit with a cluster and noise points, then get_cluster_info
C30_Witness ==
    /\ clu_call.op = "get_cluster_info"
    /\ clu_fitted
    /\ clu_call.result.n_clusters = 1
    /\ clu_call.result.n_noise > 0

---------------------------------------------------------------------------
(* Properties of layer 3 (checked under GenerationSpec) *)

\* C22: when llm.invoke fails, extract_quotes and generate_actions do not
\* raise: they return the fallback list, which depends on the arguments
\* only (the first reviews cut to 200 characters; the three canned actions).
C22_CollaboratorFailureRecovered ==
    (gen_pc = "done" /\ gen_in.llm.fails) =>
        /\ ~gen_call.raised
        /\ gen_call.op = "extract_quotes" =>
              LET num == num_or_default(gen_in.num, gen_in.num_quotes)
              IN /\ Len(gen_call.result) = Min(num, gen_in.reviews)
                 /\ \A i \in DOMAIN gen_call.result :
                       gen_call.result[i] =
                           <<i, Min(ReviewLen(i), QUOTE_CHARS), "...">>
        /\ gen_call.op = "generate_actions" =>
              gen_call.result = actions_fallback.result

\* the collaborator failed and extract_quotes returned two cut reviews
C22_Witness ==
    /\ gen_pc = "done"
    /\ gen_in.llm.fails
    /\ gen_call.op = "extract_quotes"
    /\ Len(gen_call.result) = 2
    /\ gen_call.result[2][2] = QUOTE_CHARS

\* the number the caller asked for: the argument, or the object's default
\* when the argument is left out
requested_number ==
    LET default == IF gen_call.op = "extract_quotes"
                   THEN gen_in.num_quotes ELSE gen_in.num_actions
    IN IF gen_in.num = NoneArg THEN default ELSE gen_in.num

\* C29: the returned list never has more items than the requested number,
\* whether llm.invoke succeeded or failed.
C29_AtMostRequested ==
    gen_pc = "done" => Len(gen_call.result) <= requested_number

---------------------------------------------------------------------------
(* Properties of layer 4 (checked under EmailSpec) *)

\* C23: the constructor of EmailDrafter succeeds and takes the recipient
\* from the explicit argument, else (no EMAIL_RECIPIENT being configured)
\* from EMAIL_ADDRESS, else the hard-coded address.
C23_RecipientPriority ==
    mail_pc # "new" =>
        /\ mail_pc # "raised"
        /\ mail_recipient =
              IF Truthy(mail_env.recipient) THEN mail_env.recipient
              ELSE IF Truthy(mail_env.EMAIL_ADDRESS)
                   THEN mail_env.EMAIL_ADDRESS
              ELSE HardCodedRecipient

\* the values of ENABLE_EMAIL_SENDING that enable sending
EnablingValues == {"1", "TRUE", "Yes"}

\* C24: send_email_from_draft sends nothing and returns False unless
\* sending is enabled and both EMAIL_ADDRESS and EMAIL_PASSWORD are set; a
\* failing SMTP conversation gives False and no exception; True is returned
\* only when a message was sent.
C24_SendGuards ==
    mail_pc = "returned" =>
        /\ ~mail_call.raised
        /\ (\/ mail_env.ENABLE_EMAIL_SENDING \notin EnablingValues
            \/ ~Truthy(mail_env.EMAIL_ADDRESS)
            \/ ~Truthy(mail_env.EMAIL_PASSWORD)) =>
              (mail_call.result = FALSE /\ mail_sent = <<>>)
        /\ mail_call.smtp \in SmtpOutcomes \ {"ok"} =>
              mail_call.result = FALSE
        /\ mail_call.result = TRUE =>
              /\ Len(mail_sent) = 1
              /\ mail_sent[1].To = mail_recipient

\* a message was sent and True returned
C24_Witness ==
    /\ mail_pc = "returned"
    /\ mail_call.result = TRUE
    /\ mail_env.ENABLE_EMAIL_SENDING = "Yes"
    /\ Len(mail_sent) = 1

---------------------------------------------------------------------------
(* Liveness of the run (checked under RunFairSpec) *)

HealthyShippedRun ==
    /\ run_env.healthy
    /\ run_env.config = ShippedConfig(None, None)

\* C25: a healthy run with the shipped configuration never raises and
\* eventually has finished every step of layers 1 to 4, the email draft
\* included, and reported completion.
C25_HealthyRunCompletes ==
    /\ [](HealthyShippedRun => failed_stage = "none")
    /\ HealthyShippedRun ~> (reported /\ finished = AllStages)

---------------------------------------------------------------------------
(* Frame of the enforcer (checked under EnforcerSpec) *)

\* C27: a call of enforce_theme_limit returns a mapping with exactly the
\* cluster ids of the mapping it was given, and leaves the caller's mapping
\* and table as they were, whether or not themes were merged.
C27_KeysAndInputsPreserved ==
    [][/\ (pc = "themed" /\ pc' = "enforced") =>
            /\ DOMAIN final_themes' = DOMAIN cluster_themes
            /\ cluster_themes' = cluster_themes
            /\ df_themed' = df_themed
       /\ (pc = "enforced" /\ pc' = "enforced2") =>
            DOMAIN final_themes' = DOMAIN final_themes]_vars

\* themes were merged
C27_Witness ==
    /\ pc = "enforced"
    /\ final_themes # cluster_themes
    /\ df_final # df_themed
    /\ OtherIssues \in Range(final_themes)

---------------------------------------------------------------------------
(* Properties of the deduplicator (checked under DeduplicatorSpec) *)

HashesOf(rows) == {generate_content_hash(rows[i].content) : i \in DOMAIN rows}

\* C28: the table returned holds, in input order, exactly the first row of
\* each normalized text: no two of its rows share a normalized text, every
\* input text is represented, its length plus duplicates_removed is the
\* input's length, and a second call on the returned table removes nothing.
C28_FirstOccurrences ==
    dd_pc \in {"once", "twice"} =>
        /\ dd_output = Filter(dd_input, unique_rows(dd_input))
        /\ \A i, j \in DOMAIN dd_output :
              i # j => generate_content_hash(dd_output[i].content)
                         # generate_content_hash(dd_output[j].content)
        /\ HashesOf(dd_output) = HashesOf(dd_input)
        /\ Len(dd_output) + get_statistics.duplicates_removed = Len(dd_input)
        /\ get_statistics.unique_reviews = Len(dd_output)
        /\ dd_pc = "twice" =>
              /\ dd_output = dd_input
              /\ get_statistics.duplicates_removed = 0

\* a table with duplicates was deduplicated, and its result once more
C28_Witness ==
    /\ dd_pc = "twice"
    /\ Len(dd_output) = 2
    /\ dd_output[1].review_id = 1
    /\ dd_output[2].review_id = 3

====
